---- MODULE Spec2Model ----
(***************************************************************************)
(* Tree / access-control engine of the Drive backend                       *)
(* (src/src/controllers/filesController.ts over the tables of              *)
(* src/src/config/database.sql and the upload directory).                  *)
(*                                                                         *)
(* The relational store and the upload directory are the state.  Every     *)
(* request handler is an operator from (store, principal, arguments) to    *)
(* (HTTP status, returned data, store after the request); the action of a  *)
(* handler installs the store its operator computes.  A status of 0 stands *)
(* for a request that never answers.                                       *)
(***************************************************************************)
EXTENDS Integers, FiniteSets, Sequences, TLC

\* ------------------------------------------------------------------ bounds
\* Number of UUIDs the store hands out (rows inserted + uploads attempted).
MaxId == 3

\* Number of rows of file_shares.
MaxShares == 1

\* Number of move requests in flight at the same time.
MaxMoves == 2

\* Number of tokens a name may have: stands for the 255 characters of
\* files.name VARCHAR(255).
MaxNameLen == 3

\* Number of UUIDs one copy request may draw beyond those of the tree it
\* started from, before the evaluation of its recursion is given up.
MaxCopyId == MaxId * MaxNameLen + 1

\* rows of the stores of SpecDeep
MaxDeepId == 4

Ids == 1..MaxId

\* SQL NULL / JS null for an id-valued column or argument (ids start at 1)
NULL == 0

\* ------------------------------------------------------------------ users
\* Rows of the users table: two regular users and one administrator.
Users == {"A", "B", "Adm"}

\* users.role
role(u) == IF u = "Adm" THEN "admin" ELSE "user"

\* An id that is no row of users (an unknown grantee).
NoSuchUser == "ghost"

\* req.user as attached by the authenticate middleware
Principals == {[userId |-> u, role |-> role(u)] : u \in Users}

isAdmin(req) == req.role = "admin"

\* ------------------------------------------------------------------ names
\* A name is a sequence of tokens; ".." is a token sanitizeFileName removes,
\* the empty sequence is the empty / blank name.
CopySuffix == " (copy)"

sanitizeFileName(fileName) ==
  LET sanitized == SelectSeq(fileName, LAMBDA t : t # "..")
  IN IF sanitized = <<>> THEN <<"unnamed">> ELSE sanitized

\* ------------------------------------------------------------------ blobs
uploadDir == "storage/uploads"

\* A path is the pair <<directory, base name>>; a NULL file_path is the empty tuple.
NoPath == <<>>

\* path.join(dir, base)
pathJoin(dir, base) == <<dir, base>>

\* path.basename(p)
pathBasename(p) == p[2]

\* ------------------------------------------------------------------ state
VARIABLES
  files,        \* table files: id -> row
  file_shares,  \* table file_shares: set of rows
  blobs,        \* paths present in the upload directory
  nextId,       \* next UUID to be drawn
  users,        \* table users: ids of the rows
  moves         \* move requests in flight: slot -> request and its position

vars == <<files, file_shares, blobs, nextId, users, moves>>

Store == [files |-> files, file_shares |-> file_shares, blobs |-> blobs, nextId |-> nextId,
          users |-> users]

Resp(status, data, s) == [status |-> status, data |-> data, s |-> s]

FileRowOf(name, type, parent_id, user_id, file_path) ==
  [name |-> name, type |-> type, parent_id |-> parent_id, user_id |-> user_id,
   file_path |-> file_path, thumbnail_path |-> NoPath, deleted |-> FALSE]

\* INSERT INTO files ... RETURNING *: the row gets a fresh id
insertFile(s, row) ==
  [s EXCEPT !.files = [i \in DOMAIN s.files \cup {s.nextId} |->
                         IF i = s.nextId THEN row ELSE s.files[i]],
            !.nextId = s.nextId + 1]

RECURSIVE cascadeClosure(_, _)
\* rows removed by ON DELETE CASCADE through files.parent_id
cascadeClosure(s, set) ==
  LET more == set \cup {f \in DOMAIN s.files : s.files[f].parent_id \in set}
  IN IF more = set THEN set ELSE cascadeClosure(s, more)

\* DELETE FROM files WHERE id IN ids, with the cascades of the schema
deleteRows(s, ids) ==
  LET gone == cascadeClosure(s, ids \cap DOMAIN s.files)
  IN [s EXCEPT !.files = [i \in DOMAIN s.files \ gone |-> s.files[i]],
               !.file_shares = {sh \in s.file_shares : sh.file_id \notin gone}]

\* ------------------------------------------------------------------ access
RECURSIVE accessibleClosure(_, _)
\* recursive term of the CTE accessible_folders (UNION removes duplicates)
accessibleClosure(s, set) ==
  LET more == set \cup {f \in DOMAIN s.files :
                          /\ s.files[f].parent_id \in set
                          /\ s.files[f].deleted = FALSE
                          /\ s.files[f].type = "folder"}
  IN IF more = set THEN set ELSE accessibleClosure(s, more)

sharedWith(s, fileId, userId) ==
  \E sh \in s.file_shares : sh.file_id = fileId /\ sh.shared_with_user_id = userId

\* accessible_folders with the user filter of the base case forgotten
accessible_folders_anyUser(s, userId) ==
  accessibleClosure(s, {f \in DOMAIN s.files :
                          /\ s.files[f].deleted = FALSE
                          /\ s.files[f].type = "folder"})

\* CTE accessible_folders of checkFileAccess and getFiles
accessible_folders(s, userId) ==
  accessibleClosure(s, {f \in DOMAIN s.files :
                          /\ s.files[f].deleted = FALSE
                          /\ s.files[f].type = "folder"
                          /\ (s.files[f].user_id = userId \/ sharedWith(s, f, userId))})

\* checkFileAccess with the filter on deleted forgotten
checkFileAccess_seesDeleted(s, fileId, req) ==
  IF isAdmin(req)
  THEN IF fileId \in DOMAIN s.files THEN fileId ELSE NULL
  ELSE IF /\ fileId \in DOMAIN s.files
          /\ \/ s.files[fileId].user_id = req.userId
             \/ sharedWith(s, fileId, req.userId)
             \/ s.files[fileId].parent_id \in accessible_folders(s, req.userId)
       THEN fileId
       ELSE NULL

\* a resolver without the branch for the admin role
checkFileAccess_noAdminBranch(s, fileId, req) ==
  IF /\ fileId \in DOMAIN s.files
     /\ s.files[fileId].deleted = FALSE
     /\ \/ s.files[fileId].user_id = req.userId
        \/ sharedWith(s, fileId, req.userId)
        \/ s.files[fileId].parent_id \in accessible_folders(s, req.userId)
  THEN fileId
  ELSE NULL

\* the id of the row found, or NULL
checkFileAccess(s, fileId, req) ==
  IF isAdmin(req)
  THEN IF fileId \in DOMAIN s.files THEN fileId ELSE NULL
  ELSE IF /\ fileId \in DOMAIN s.files
          /\ s.files[fileId].deleted = FALSE
          /\ \/ s.files[fileId].user_id = req.userId
             \/ sharedWith(s, fileId, req.userId)
             \/ s.files[fileId].parent_id \in accessible_folders(s, req.userId)
       THEN fileId
       ELSE NULL

checkWriteAccess(s, fileId, req) ==
  IF isAdmin(req) THEN TRUE
  ELSE /\ fileId \in DOMAIN s.files
       /\ s.files[fileId].deleted = FALSE
       /\ \/ s.files[fileId].user_id = req.userId
          \/ \E sh \in s.file_shares : /\ sh.file_id = fileId
                                       /\ sh.shared_with_user_id = req.userId
                                       /\ sh.permission = "write"

\* ------------------------------------------------------------------ create
\* POST /folders
createFolder(s, req, name, parentId) ==
  IF name = <<>> THEN Resp(400, NULL, s)
  ELSE LET sanitizedName == sanitizeFileName(name)
           parentFile == IF parentId # NULL THEN checkFileAccess(s, parentId, req) ELSE NULL
       IN IF parentId # NULL /\ parentFile = NULL THEN Resp(404, NULL, s)
          ELSE IF parentId # NULL /\ s.files[parentFile].type # "folder" THEN Resp(400, NULL, s)
          ELSE Resp(201, s.nextId,
                    insertFile(s, FileRowOf(sanitizedName, "folder", parentId, req.userId, NoPath)))

\* multer diskStorage: the content is written under a generated unique name
\* before the handler runs
multerStore(s) == [s EXCEPT !.blobs = s.blobs \cup {pathJoin(uploadDir, s.nextId)}]

\* POST /upload with one file in the request
uploadFiles(s0, req, name, parentId) ==
  LET s == multerStore(s0)
      filePath == pathJoin(uploadDir, s0.nextId)
  IN IF parentId # NULL /\ checkFileAccess(s, parentId, req) = NULL
     THEN Resp(404, NULL, [s EXCEPT !.nextId = s.nextId + 1])
     ELSE Resp(201, s.nextId,
               insertFile(s, FileRowOf(name, "file", parentId, req.userId, filePath)))

\* ------------------------------------------------------------------ errors
\* The TypeError rowToFile throws on an undefined row: it carries no status.
TypeError == [statusCode |-> NULL, status |-> NULL]

\* A file-system error other than ENOENT, and ENOENT itself: no HTTP status either.
IOError == [statusCode |-> NULL, status |-> NULL]

\* The error of the store on a value too long for its column: no HTTP status either.
DbError == [statusCode |-> NULL, status |-> NULL]

\* a store whose name column takes a name of any length
tooLong_never(name) == FALSE

\* files.name VARCHAR(255): the store rejects a longer name
tooLong(name) == Len(name) > MaxNameLen

\* status answered by the error middleware for an error passed to next()
errorHandler(err) ==
  IF err.statusCode # NULL THEN err.statusCode
  ELSE IF err.status # NULL THEN err.status
  ELSE 500

\* ------------------------------------------------------------------ rename
RenameNames == {<<"b">>, <<>>, <<"..", "b">>}

\* PATCH /:id/rename
renameFile(s, req, id, name) ==
  IF name = <<>> THEN Resp(400, NULL, s)
  ELSE LET sanitizedName == sanitizeFileName(name)
           targetFile == checkFileAccess(s, id, req)
       IN IF targetFile = NULL THEN Resp(404, NULL, s)
          \* UPDATE ... WHERE id = $2 [AND user_id = $3] RETURNING *
          ELSE IF isAdmin(req) \/ s.files[id].user_id = req.userId
          THEN Resp(200, id, [s EXCEPT !.files[id].name = sanitizedName])
          \* no row updated: rowToFile(result.rows[0]) throws
          ELSE Resp(errorHandler(TypeError), NULL, s)

\* ------------------------------------------------------------------ move
RECURSIVE descendantWalk(_, _, _, _, _, _)
\* checkIfDescendant with the folders already queried: a folder queried twice
\* means the recursion never ends
descendantWalk(s, folderId, ancestorId, userId, isAdminUser, visited) ==
  IF folderId = ancestorId THEN "true"
  ELSE IF folderId \in visited THEN "diverges"
  ELSE LET found == /\ folderId \in DOMAIN s.files
                    /\ \/ isAdminUser
                       \/ /\ s.files[folderId].user_id = userId
                          /\ s.files[folderId].deleted = FALSE
       IN IF ~found THEN "false"
          ELSE IF s.files[folderId].parent_id = NULL THEN "false"
          ELSE IF s.files[folderId].parent_id = ancestorId THEN "true"
          ELSE descendantWalk(s, s.files[folderId].parent_id, ancestorId, userId,
                              isAdminUser, visited \cup {folderId})

checkIfDescendant(s, folderId, ancestorId, userId, isAdminUser) ==
  descendantWalk(s, folderId, ancestorId, userId, isAdminUser, {})

\* a move whose UPDATE also writes user_id
moveFile_takesOwnership(s, req, id, destinationId) ==
  LET file == checkFileAccess(s, id, req)
  IN IF file = NULL THEN Resp(404, NULL, s)
     ELSE LET isDescendant ==
                IF destinationId # NULL /\ s.files[file].type = "folder"
                THEN checkIfDescendant(s, destinationId, id, req.userId, isAdmin(req))
                ELSE "false"
              destFile == IF destinationId # NULL
                          THEN checkFileAccess(s, destinationId, req) ELSE NULL
          IN IF isDescendant = "diverges" THEN Resp(0, NULL, s)
             ELSE IF isDescendant = "true" THEN Resp(400, NULL, s)
             ELSE IF destinationId # NULL /\ destFile = NULL THEN Resp(404, NULL, s)
             ELSE IF destinationId # NULL /\ s.files[destFile].type # "folder"
                  THEN Resp(400, NULL, s)
             ELSE Resp(200, id, [s EXCEPT !.files[id].parent_id = destinationId,
                                          !.files[id].user_id = req.userId])

\* PATCH /:id/move
moveFile(s, req, id, destinationId) ==
  LET file == checkFileAccess(s, id, req)
  IN IF file = NULL THEN Resp(404, NULL, s)
     ELSE LET isDescendant ==
                IF destinationId # NULL /\ s.files[file].type = "folder"
                THEN checkIfDescendant(s, destinationId, id, req.userId, isAdmin(req))
                ELSE "false"
              destFile == IF destinationId # NULL
                          THEN checkFileAccess(s, destinationId, req) ELSE NULL
          IN IF isDescendant = "diverges" THEN Resp(0, NULL, s)
             ELSE IF isDescendant = "true" THEN Resp(400, NULL, s)
             ELSE IF destinationId # NULL /\ destFile = NULL THEN Resp(404, NULL, s)
             ELSE IF destinationId # NULL /\ s.files[destFile].type # "folder"
                  THEN Resp(400, NULL, s)
             \* UPDATE ... WHERE id = $2 [AND user_id = $3] RETURNING *
             ELSE IF isAdmin(req) \/ s.files[id].user_id = req.userId
                  THEN Resp(200, id, [s EXCEPT !.files[id].parent_id = destinationId])
             ELSE Resp(errorHandler(TypeError), NULL, s)

\* ------------------------------------------------------------------ share
Permissions == {"read", "write"}

\* shareFolder with a plain INSERT, without ON CONFLICT ... DO UPDATE and
\* without the UNIQUE constraint
shareFolder_insertsAlways(s, req, id, sharedWithUserId, permission) ==
  IF permission \notin Permissions THEN Resp(400, NULL, s)
  ELSE LET file == checkFileAccess(s, id, req)
           sharedByUserId == req.userId
       IN IF file = NULL THEN Resp(404, NULL, s)
          ELSE IF s.files[file].type # "folder" THEN Resp(400, NULL, s)
          ELSE IF ~isAdmin(req) /\ s.files[file].user_id # sharedByUserId
               THEN Resp(403, NULL, s)
          ELSE IF sharedWithUserId = sharedByUserId THEN Resp(400, NULL, s)
          ELSE IF sharedWithUserId \notin s.users THEN Resp(404, NULL, s)
          ELSE Resp(201, NULL,
                    [s EXCEPT !.file_shares = s.file_shares \cup
                       {[file_id |-> id, shared_by_user_id |-> sharedByUserId,
                         shared_with_user_id |-> sharedWithUserId,
                         permission |-> permission]}])

\* shareFolder without the check that the caller owns the folder
shareFolder_anyResolver(s, req, id, sharedWithUserId, permission) ==
  IF permission \notin Permissions THEN Resp(400, NULL, s)
  ELSE LET file == checkFileAccess(s, id, req)
           sharedByUserId == req.userId
           conflict == {sh \in s.file_shares :
                          sh.file_id = id /\ sh.shared_with_user_id = sharedWithUserId}
       IN IF file = NULL THEN Resp(404, NULL, s)
          ELSE IF s.files[file].type # "folder" THEN Resp(400, NULL, s)
          ELSE IF sharedWithUserId = sharedByUserId THEN Resp(400, NULL, s)
          ELSE IF sharedWithUserId \notin s.users THEN Resp(404, NULL, s)
          ELSE Resp(201, NULL,
                    [s EXCEPT !.file_shares =
                       (s.file_shares \ conflict) \cup
                       {[file_id |-> id, shared_by_user_id |-> sharedByUserId,
                         shared_with_user_id |-> sharedWithUserId,
                         permission |-> permission]}])

\* POST /:id/share
shareFolder(s, req, id, sharedWithUserId, permission) ==
  IF permission \notin Permissions THEN Resp(400, NULL, s)
  ELSE LET file == checkFileAccess(s, id, req)
           sharedByUserId == req.userId
           conflict == {sh \in s.file_shares :
                          sh.file_id = id /\ sh.shared_with_user_id = sharedWithUserId}
       IN IF file = NULL THEN Resp(404, NULL, s)
          ELSE IF s.files[file].type # "folder" THEN Resp(400, NULL, s)
          ELSE IF ~isAdmin(req) /\ s.files[file].user_id # sharedByUserId
               THEN Resp(403, NULL, s)
          ELSE IF sharedWithUserId = sharedByUserId THEN Resp(400, NULL, s)
          ELSE IF sharedWithUserId \notin s.users THEN Resp(404, NULL, s)
          \* INSERT ... ON CONFLICT (file_id, shared_with_user_id) DO UPDATE
          ELSE IF conflict # {}
               THEN Resp(201, NULL,
                         [s EXCEPT !.file_shares =
                            (s.file_shares \ conflict) \cup
                            {[sh EXCEPT !.permission = permission] : sh \in conflict}])
          ELSE Resp(201, NULL,
                    [s EXCEPT !.file_shares = s.file_shares \cup
                       {[file_id |-> id, shared_by_user_id |-> sharedByUserId,
                         shared_with_user_id |-> sharedWithUserId,
                         permission |-> permission]}])

\* unshareFolder with a DELETE that forgets the grantee
unshareFolder_allGrantees(s, req, id, sharedWithUserId) ==
  LET file == checkFileAccess(s, id, req)
      rows == {sh \in s.file_shares : sh.file_id = id}
  IN IF file = NULL THEN Resp(404, NULL, s)
     ELSE IF ~isAdmin(req) /\ s.files[file].user_id # req.userId THEN Resp(403, NULL, s)
     ELSE IF rows = {} THEN Resp(404, NULL, s)
     ELSE Resp(204, NULL, [s EXCEPT !.file_shares = s.file_shares \ rows])

\* DELETE /:id/share/:userId
unshareFolder(s, req, id, sharedWithUserId) ==
  LET file == checkFileAccess(s, id, req)
      rows == {sh \in s.file_shares :
                 sh.file_id = id /\ sh.shared_with_user_id = sharedWithUserId}
  IN IF file = NULL THEN Resp(404, NULL, s)
     ELSE IF ~isAdmin(req) /\ s.files[file].user_id # req.userId THEN Resp(403, NULL, s)
     ELSE IF rows = {} THEN Resp(404, NULL, s)
     ELSE Resp(204, NULL, [s EXCEPT !.file_shares = s.file_shares \ rows])

\* ------------------------------------------------------------------ file system
\* The environment of a request: env.io is the set of paths on which the file
\* system fails with an error other than ENOENT, env.desc tells whether the
\* store returns the rows of a SELECT without ORDER BY in descending id order.
Envs(s) == [io : {{}} \cup {{p} : p \in s.blobs}, desc : BOOLEAN]

\* fileUtils.copyFile (fs.copyFile): [s, err]
copyFileToPath(s, env, sourcePath, destPath) ==
  IF sourcePath \notin s.blobs \/ sourcePath \in env.io \/ destPath \in env.io
  THEN [s |-> s, err |-> TRUE]
  ELSE [s |-> [s EXCEPT !.blobs = s.blobs \cup {destPath}], err |-> FALSE]

\* an unlink that reports the missing path as an error
deleteFile_enoentThrows(s, env, filePath) ==
  IF filePath \notin s.blobs \/ filePath \in env.io THEN [s |-> s, err |-> TRUE]
  ELSE [s |-> [s EXCEPT !.blobs = s.blobs \ {filePath}], err |-> FALSE]

\* fileUtils.deleteFile (fs.unlink, ENOENT ignored): [s, err]
deleteFile(s, env, filePath) ==
  IF filePath \notin s.blobs THEN [s |-> s, err |-> FALSE]
  ELSE IF filePath \in env.io THEN [s |-> s, err |-> TRUE]
  ELSE [s |-> [s EXCEPT !.blobs = s.blobs \ {filePath}], err |-> FALSE]

\* a row as a query returns it: the columns and the id
rowOf(s, id) == [id |-> id, row |-> s.files[id]]

\* the rows of a result set, in the order the store returns them
RECURSIVE inOrder(_, _, _)
inOrder(s, env, ids) ==
  IF ids = {} THEN <<>>
  ELSE LET first == IF env.desc
                    THEN CHOOSE i \in ids : \A j \in ids : j <= i
                    ELSE CHOOSE i \in ids : \A j \in ids : i <= j
       IN <<rowOf(s, first)>> \o inOrder(s, env, ids \ {first})

\* ------------------------------------------------------------------ copy
RECURSIVE copyFileRecursive(_, _, _, _, _)
RECURSIVE copyChildren(_, _, _, _, _)

\* [s, id of the row inserted, err]; err is "io" for a failed blob copy and
\* "ids" when the request has drawn every id up to MaxCopyId
copyFileRecursive(s, env, file, destinationId, userId) ==
  IF s.nextId > MaxCopyId THEN [s |-> s, id |-> NULL, err |-> "ids"]
  ELSE IF file.row.type = "file"
  THEN LET newFilePath == IF file.row.file_path # NoPath
                          THEN pathJoin(uploadDir, pathBasename(file.row.file_path))
                          ELSE NoPath
           copied == IF file.row.file_path # NoPath
                     THEN copyFileToPath(s, env, file.row.file_path, newFilePath)
                     ELSE [s |-> s, err |-> FALSE]
       IN IF copied.err THEN [s |-> s, id |-> NULL, err |-> "io"]
          ELSE IF tooLong(Append(file.row.name, CopySuffix))
          THEN [s |-> copied.s, id |-> NULL, err |-> "db"]
          ELSE [s |-> insertFile(copied.s,
                        [FileRowOf(Append(file.row.name, CopySuffix), "file", destinationId,
                                   userId, newFilePath)
                           EXCEPT !.thumbnail_path = file.row.thumbnail_path]),
                id |-> s.nextId, err |-> "none"]
  ELSE LET s1 == insertFile(s, FileRowOf(Append(file.row.name, CopySuffix), "folder",
                                         destinationId, userId, NoPath))
           newFolder == s.nextId
           children == inOrder(s1, env, {c \in DOMAIN s1.files :
                                           /\ s1.files[c].parent_id = file.id
                                           /\ s1.files[c].user_id = userId
                                           /\ s1.files[c].deleted = FALSE})
           done == copyChildren(s1, env, children, newFolder, userId)
       IN IF tooLong(Append(file.row.name, CopySuffix))
          THEN [s |-> s, id |-> NULL, err |-> "db"]
          ELSE [s |-> done.s, id |-> newFolder, err |-> done.err]

\* a copy that does not descend into the folder
copyChildren_none(s, env, children, newFolderId, userId) == [s |-> s, err |-> "none"]

\* for (const child of childrenResult.rows) await copyFileRecursive(...)
copyChildren(s, env, children, newFolderId, userId) ==
  IF children = <<>> THEN [s |-> s, err |-> "none"]
  ELSE LET one == copyFileRecursive(s, env, Head(children), newFolderId, userId)
       IN IF one.err # "none" THEN [s |-> one.s, err |-> one.err]
          ELSE copyChildren(one.s, env, Tail(children), newFolderId, userId)

\* POST /:id/copy; status -1 marks a copy that needs more ids than MaxCopyId
copyFile(s, env, req, id, destinationId) ==
  IF destinationId = NULL THEN Resp(400, NULL, s)
  ELSE LET originalFile == checkFileAccess(s, id, req)
           destFile == checkFileAccess(s, destinationId, req)
       IN IF originalFile = NULL THEN Resp(404, NULL, s)
          ELSE IF destFile = NULL THEN Resp(404, NULL, s)
          ELSE IF s.files[destFile].type # "folder" THEN Resp(400, NULL, s)
          ELSE LET copied == copyFileRecursive(s, env, rowOf(s, originalFile),
                                               destinationId, req.userId)
               IN IF copied.err = "ids" THEN Resp(-1, NULL, copied.s)
                  ELSE IF copied.err = "io" THEN Resp(errorHandler(IOError), NULL, copied.s)
                  ELSE IF copied.err = "db" THEN Resp(errorHandler(DbError), NULL, copied.s)
                  ELSE Resp(201, copied.id, copied.s)

\* ------------------------------------------------------------------ delete
\* a soft delete whose UPDATE has no owner filter
softDeleteFileRecursive_anyOwner(s, env, file, userId) ==
  [s EXCEPT !.files[file.id].deleted = TRUE]

\* a delete of a non-admin that removes the row
softDeleteFileRecursive_hard(s, env, file, userId) == deleteRows(s, {file.id})

RECURSIVE softDeleteFileRecursive(_, _, _, _)
RECURSIVE softDeleteChildren(_, _, _, _)

\* the store after the recursion
softDeleteFileRecursive(s, env, file, userId) ==
  LET children == IF file.row.type = "folder"
                  THEN inOrder(s, env, {c \in DOMAIN s.files :
                                          /\ s.files[c].parent_id = file.id
                                          /\ s.files[c].user_id = userId
                                          /\ s.files[c].deleted = FALSE})
                  ELSE <<>>
      s1 == softDeleteChildren(s, env, children, userId)
  IN \* UPDATE files SET deleted = TRUE WHERE id = $1 AND user_id = $2
     IF file.id \in DOMAIN s1.files /\ s1.files[file.id].user_id = userId
     THEN [s1 EXCEPT !.files[file.id].deleted = TRUE]
     ELSE s1

softDeleteChildren(s, env, children, userId) ==
  IF children = <<>> THEN s
  ELSE softDeleteChildren(softDeleteFileRecursive(s, env, Head(children), userId),
                          env, Tail(children), userId)

RECURSIVE deleteFileWalk(_, _, _, _, _)
RECURSIVE deleteChildren(_, _, _, _, _)

\* deleteFileRecursive with the folders whose call is still open: a folder
\* reached again below itself means the recursion never ends.
\* [s, err]: err is "io" for a failed unlink, "diverges" for an endless recursion
deleteFileWalk(s, env, file, isAdminUser, open) ==
  IF file.id \in open THEN [s |-> s, err |-> "diverges"]
  ELSE LET blobGone == IF file.row.type = "file" /\ file.row.file_path # NoPath
                       THEN deleteFile(s, env, file.row.file_path)
                       ELSE [s |-> s, err |-> FALSE]
           thumbGone == IF file.row.type = "file" /\ file.row.thumbnail_path # NoPath
                              /\ ~blobGone.err
                        THEN deleteFile(blobGone.s, env, file.row.thumbnail_path)
                        ELSE blobGone
           children == IF file.row.type = "file" THEN <<>>
                       ELSE inOrder(s, env, {c \in DOMAIN s.files :
                                               /\ s.files[c].parent_id = file.id
                                               /\ (isAdminUser \/
                                                   s.files[c].user_id = file.row.user_id)})
           below == IF file.row.type = "file"
                    THEN [s |-> thumbGone.s, err |-> IF thumbGone.err THEN "io" ELSE "none"]
                    ELSE deleteChildren(s, env, children, isAdminUser, open \cup {file.id})
       IN IF below.err # "none" THEN below
          \* DELETE FROM files WHERE id = $1 [AND user_id = $2]
          ELSE [s |-> deleteRows(below.s, {file.id}), err |-> "none"]

deleteChildren(s, env, children, isAdminUser, open) ==
  IF children = <<>> THEN [s |-> s, err |-> "none"]
  ELSE LET one == deleteFileWalk(s, env, Head(children), isAdminUser, open)
       IN IF one.err # "none" THEN one
          ELSE deleteChildren(one.s, env, Tail(children), isAdminUser, open)

deleteFileRecursive(s, env, file, isAdminUser) ==
  deleteFileWalk(s, env, file, isAdminUser, {})

\* a DELETE /:id that marks the rows for every caller
deleteFileById_softForAll(s, env, req, id) ==
  LET file == checkFileAccess(s, id, req)
  IN IF file = NULL THEN Resp(404, NULL, s)
     ELSE Resp(204, NULL, softDeleteFileRecursive(s, env, rowOf(s, file),
                                                  s.files[file].user_id))

\* DELETE /:id
deleteFileById(s, env, req, id) ==
  LET file == checkFileAccess(s, id, req)
  IN IF file = NULL THEN Resp(404, NULL, s)
     ELSE IF isAdmin(req)
     THEN LET gone == deleteFileRecursive(s, env, rowOf(s, file), TRUE)
          IN IF gone.err = "diverges" THEN Resp(0, NULL, gone.s)
             ELSE IF gone.err = "io" THEN Resp(errorHandler(IOError), NULL, gone.s)
             ELSE Resp(204, NULL, gone.s)
     ELSE Resp(204, NULL, softDeleteFileRecursive(s, env, rowOf(s, file), req.userId))

\* ------------------------------------------------------------------ reads
\* GET /?parentId=&userId= : the ids of the rows returned
getFiles(s, req, parentId, userId) ==
  IF isAdmin(req)
  THEN Resp(200, {f \in DOMAIN s.files :
                    /\ (userId # NULL => s.files[f].user_id = userId)
                    /\ s.files[f].parent_id = parentId}, s)
  ELSE IF parentId # NULL
  THEN Resp(200, {f \in DOMAIN s.files :
                    /\ s.files[f].deleted = FALSE
                    /\ s.files[f].parent_id = parentId
                    /\ \E parent \in DOMAIN s.files :
                         /\ parent = parentId
                         /\ s.files[parent].deleted = FALSE
                         /\ \/ s.files[parent].user_id = req.userId
                            \/ sharedWith(s, parent, req.userId)}, s)
  ELSE Resp(200, {f \in DOMAIN s.files :
                    /\ s.files[f].deleted = FALSE
                    /\ s.files[f].parent_id = NULL
                    /\ \/ s.files[f].user_id = req.userId
                       \/ sharedWith(s, f, req.userId)
                       \/ s.files[f].parent_id \in accessible_folders(s, req.userId)}, s)

\* buildUserFilter: does the row pass the clause added to the query
buildUserFilter(s, req, f) == isAdmin(req) \/ s.files[f].user_id = req.userId

\* GET /:id
getFileById(s, req, id) ==
  IF /\ id \in DOMAIN s.files
     /\ buildUserFilter(s, req, id)
     /\ (~isAdmin(req) => s.files[id].deleted = FALSE)
  THEN Resp(200, id, s)
  ELSE Resp(404, NULL, s)

\* path.resolve(filePath) lies in path.resolve(allowedDir)
validateFilePath(filePath, allowedDir) == filePath[1] = allowedDir

\* a download that answers 403 for a row the caller may not see
downloadFile_forbidden(s, req, id) ==
  LET file == checkFileAccess(s, id, req)
  IN IF file = NULL
     THEN IF id \in DOMAIN s.files THEN Resp(403, NULL, s) ELSE Resp(404, NULL, s)
     ELSE IF s.files[file].type # "file" \/ s.files[file].file_path = NoPath
          THEN Resp(400, NULL, s)
     ELSE IF ~validateFilePath(s.files[file].file_path, uploadDir) THEN Resp(403, NULL, s)
     ELSE IF s.files[file].file_path \notin s.blobs THEN Resp(404, NULL, s)
     ELSE Resp(200, file, s)

\* GET /:id/download
downloadFile(s, req, id) ==
  LET file == checkFileAccess(s, id, req)
  IN IF file = NULL THEN Resp(404, NULL, s)
     ELSE IF s.files[file].type # "file" \/ s.files[file].file_path = NoPath
          THEN Resp(400, NULL, s)
     ELSE IF ~validateFilePath(s.files[file].file_path, uploadDir) THEN Resp(403, NULL, s)
     ELSE IF s.files[file].file_path \notin s.blobs THEN Resp(404, NULL, s)
     ELSE Resp(200, file, s)

\* GET /:id/shares : the share rows returned
getFolderShares(s, req, id) ==
  LET file == checkFileAccess(s, id, req)
  IN IF file = NULL THEN Resp(404, {}, s)
     ELSE IF ~isAdmin(req) /\ s.files[file].user_id # req.userId THEN Resp(403, {}, s)
     ELSE Resp(200, {sh \in s.file_shares :
                       sh.file_id = id /\ sh.shared_with_user_id \in Users}, s)

\* GET /shared/folders : the ids of the folders returned
getSharedFolders(s, req) ==
  Resp(200, {f \in DOMAIN s.files :
               /\ sharedWith(s, f, req.userId)
               /\ s.files[f].user_id \in Users
               /\ s.files[f].deleted = FALSE
               /\ s.files[f].type = "folder"}, s)

\* ------------------------------------------------------------------ users
\* the loop of deleteUser over the file_path of the user's rows: an unlink
\* that fails is logged and skipped
unlinkAll(s, env, paths) ==
  [s EXCEPT !.blobs = {p \in s.blobs : p \notin paths \/ deleteFile(s, env, p).err}]

\* deleteUserRow without the cascade through file_shares.shared_with_user_id
deleteUserRow_keepsGrants(s, id) ==
  LET s1 == deleteRows(s, {f \in DOMAIN s.files : s.files[f].user_id = id})
  IN [s1 EXCEPT !.users = s.users \ {id},
                !.file_shares = {sh \in s1.file_shares : sh.shared_by_user_id # id}]

\* DELETE FROM users WHERE id = $1, with the cascades of the schema through
\* files.user_id, file_shares.shared_by_user_id and file_shares.shared_with_user_id
deleteUserRow(s, id) ==
  LET s1 == deleteRows(s, {f \in DOMAIN s.files : s.files[f].user_id = id})
  IN [s1 EXCEPT !.users = s.users \ {id},
                !.file_shares = {sh \in s1.file_shares :
                                   /\ sh.shared_by_user_id # id
                                   /\ sh.shared_with_user_id # id}]

\* DELETE /users/:id
deleteUser(s, env, req, id) ==
  IF req.role # "admin" THEN Resp(403, NULL, s)
  ELSE IF id = req.userId THEN Resp(400, NULL, s)
  ELSE IF id \notin s.users THEN Resp(404, NULL, s)
  ELSE LET paths == {s.files[f].file_path : f \in {g \in DOMAIN s.files : s.files[g].user_id = id}}
                    \cup {s.files[f].thumbnail_path : f \in {g \in DOMAIN s.files : s.files[g].user_id = id}}
       IN Resp(204, NULL, deleteUserRow(unlinkAll(s, env, paths \ {NoPath}), id))

\* ------------------------------------------------------------------ requests in flight
\* A request of moveFile between two of its store queries: pc is the query it
\* issues next, folderId the argument of the pending call of checkIfDescendant.
Slots == 1..MaxMoves

Idle == [req |-> [userId |-> "none", role |-> "none"], id |-> NULL,
         destinationId |-> NULL, pc |-> "idle", folderId |-> NULL]

\* ------------------------------------------------------------------ spec
Init ==
  /\ files = [i \in {} |-> NULL]
  /\ file_shares = {}
  /\ blobs = {}
  /\ nextId = 1
  /\ users = Users
  /\ moves = [sl \in Slots |-> Idle]

Install(r) ==
  /\ r.s.nextId <= MaxId + 1
  /\ Cardinality(r.s.file_shares) <= MaxShares
  /\ files' = r.s.files
  /\ file_shares' = r.s.file_shares
  /\ blobs' = r.s.blobs
  /\ nextId' = r.s.nextId
  /\ users' = r.s.users
  /\ UNCHANGED moves

\* authenticate: a token of a user that is no row of users is answered 401
Authenticated == {req \in Principals : req.userId \in users}

\* The requests drawn below address rows that exist (a request naming an id
\* that is no row is answered 404 by every handler and changes nothing).
Existing == DOMAIN files

Targets == Existing \cup {NULL}

\* users named as grantee in share requests
Grantees == {"A", "B"}

\* principals that create nodes; A and B are interchangeable, so the first
\* node is A's
Creators == {req \in Authenticated : ~isAdmin(req) /\ (nextId = 1 => req.userId = "A")}

NoFailure == [io |-> {}, desc |-> FALSE]

CreateFolder ==
  /\ nextId <= MaxId
  /\ \E req \in Creators, name \in {<<"a">>}, parentId \in Targets :
       Install(createFolder(Store, req, name, parentId))

UploadFiles ==
  /\ nextId <= MaxId
  /\ \E req \in Creators, parentId \in Targets :
       Install(uploadFiles(Store, req, <<"a">>, parentId))

RenameFile ==
  \E req \in Authenticated, id \in Existing, name \in RenameNames :
    Install(renameFile(Store, req, id, name))

MoveFile ==
  \E req \in Authenticated, id \in Existing, destinationId \in Targets :
    Install(moveFile(Store, req, id, destinationId))

ShareFolder ==
  \E req \in Authenticated, id \in Existing, sharedWithUserId \in Grantees,
     permission \in Permissions :
    Install(shareFolder(Store, req, id, sharedWithUserId, permission))

UnshareFolder ==
  \E req \in Authenticated, id \in Existing, sharedWithUserId \in Grantees :
    Install(unshareFolder(Store, req, id, sharedWithUserId))

CopyFile ==
  /\ nextId <= MaxId
  /\ \E req \in Authenticated, id \in Existing, destinationId \in Existing,
        env \in Envs(Store) :
       /\ copyFile(Store, env, req, id, destinationId).status # -1
       /\ Install(copyFile(Store, env, req, id, destinationId))

DeleteFileById ==
  \E req \in Authenticated, id \in Existing :
    \E env \in IF isAdmin(req) THEN Envs(Store) ELSE {NoFailure} :
      Install(deleteFileById(Store, env, req, id))

Next ==
  \/ CreateFolder
  \/ UploadFiles
  \/ MoveFile
  \/ CopyFile
  \/ DeleteFileById
  \/ ShareFolder
  \/ UnshareFolder

\* ------------------------------------------------------------------ four rows
\* create, upload, share and move over stores of up to MaxDeepId rows
InstallDeep(r) ==
  /\ r.s.nextId <= MaxDeepId + 1
  /\ Cardinality(r.s.file_shares) <= MaxShares
  /\ files' = r.s.files
  /\ file_shares' = r.s.file_shares
  /\ blobs' = r.s.blobs
  /\ nextId' = r.s.nextId
  /\ users' = r.s.users
  /\ UNCHANGED moves

CreateFolderDeep ==
  /\ nextId <= MaxDeepId
  /\ \E req \in Creators, parentId \in Targets :
       InstallDeep(createFolder(Store, req, <<"a">>, parentId))

\* uploads of A
UploadFilesDeep ==
  /\ nextId <= MaxDeepId
  /\ \E parentId \in Targets :
       InstallDeep(uploadFiles(Store, [userId |-> "A", role |-> role("A")], <<"a">>, parentId))

\* shares of A with B at read
ShareFolderDeep ==
  \E id \in Existing :
    InstallDeep(shareFolder(Store, [userId |-> "A", role |-> role("A")], id, "B", "read"))

MoveFileDeep ==
  \E req \in Authenticated, id \in Existing, destinationId \in Targets :
    InstallDeep(moveFile(Store, req, id, destinationId))

NextDeep ==
  \/ CreateFolderDeep
  \/ UploadFilesDeep
  \/ ShareFolderDeep
  \/ MoveFileDeep

SpecDeep == Init /\ [][NextDeep]_vars

NextRename ==
  \/ CreateFolder
  \/ UploadFiles
  \/ ShareFolder
  \/ UnshareFolder
  \/ RenameFile

\* the answer of a request in flight frees its slot
answered(sl) == [moves EXCEPT ![sl] = Idle]

\* moveFile up to and including its first query, checkFileAccess on :id
MoveStart(sl) ==
  /\ moves[sl].pc = "idle"
  /\ \E req \in Authenticated, id \in Existing, destinationId \in Targets :
       LET file == checkFileAccess(Store, id, req)
           m == [req |-> req, id |-> id, destinationId |-> destinationId,
                 pc |-> "destination", folderId |-> NULL]
       IN /\ file # NULL
          /\ moves' =
               IF destinationId # NULL /\ files[file].type = "folder"
               THEN IF destinationId = id THEN answered(sl)
                    ELSE [moves EXCEPT ![sl] = [m EXCEPT !.pc = "descendant",
                                                         !.folderId = destinationId]]
               ELSE IF destinationId # NULL THEN [moves EXCEPT ![sl] = m]
               ELSE [moves EXCEPT ![sl] = [m EXCEPT !.pc = "update"]]
  /\ UNCHANGED <<files, file_shares, blobs, nextId, users>>

\* one query of checkIfDescendant
MoveDescendantQuery(sl) ==
  LET m == moves[sl]
      found == /\ m.folderId \in DOMAIN files
               /\ \/ isAdmin(m.req)
                  \/ /\ files[m.folderId].user_id = m.req.userId
                     /\ files[m.folderId].deleted = FALSE
  IN /\ m.pc = "descendant"
     /\ moves' =
          IF ~found \/ files[m.folderId].parent_id = NULL
          THEN [moves EXCEPT ![sl].pc = "destination", ![sl].folderId = NULL]
          ELSE IF files[m.folderId].parent_id = m.id THEN answered(sl)
          ELSE [moves EXCEPT ![sl].folderId = files[m.folderId].parent_id]
     /\ UNCHANGED <<files, file_shares, blobs, nextId, users>>

\* checkFileAccess on the destination
MoveDestinationQuery(sl) ==
  LET m == moves[sl]
      destFile == checkFileAccess(Store, m.destinationId, m.req)
  IN /\ m.pc = "destination"
     /\ moves' = IF destFile = NULL \/ files[destFile].type # "folder"
                 THEN answered(sl)
                 ELSE [moves EXCEPT ![sl].pc = "update"]
     /\ UNCHANGED <<files, file_shares, blobs, nextId, users>>

\* the last query of moveFile and its answer:
\* UPDATE files SET parent_id = $1 WHERE id = $2 [AND user_id = $3] RETURNING *
\* and rowToFile(result.rows[0])
moveUpdate(s, m) ==
  IF m.id \in DOMAIN s.files
     /\ (isAdmin(m.req) \/ s.files[m.id].user_id = m.req.userId)
  THEN Resp(200, m.id, [s EXCEPT !.files[m.id].parent_id = m.destinationId])
  ELSE Resp(errorHandler(TypeError), NULL, s)

MoveUpdate(sl) ==
  LET m == moves[sl]
  IN /\ m.pc = "update"
     /\ files' = moveUpdate(Store, m).s.files
     /\ moves' = answered(sl)
     /\ UNCHANGED <<file_shares, blobs, nextId, users>>

NextMoves ==
  \/ CreateFolder
  \/ \E sl \in Slots : MoveStart(sl)
  \/ \E sl \in Slots : MoveDescendantQuery(sl)
  \/ \E sl \in Slots : MoveDestinationQuery(sl)
  \/ \E sl \in Slots : MoveUpdate(sl)

\* move requests whose store queries interleave, over folders built by create
SpecMoves == Init /\ [][NextMoves]_vars

NextMoveDelete ==
  \/ CreateFolder
  \/ MoveStart(1)
  \/ MoveDescendantQuery(1)
  \/ MoveDestinationQuery(1)
  \/ MoveUpdate(1)
  \/ DeleteFileById

\* one move request whose store queries interleave with DELETE /:id requests
SpecMoveDelete == Init /\ [][NextMoveDelete]_vars

\* share requests on a store that may hold one row more than MaxShares
ShareFolderMore ==
  \E req \in Authenticated, id \in Existing, sharedWithUserId \in Grantees,
     permission \in Permissions :
    LET r == shareFolder(Store, req, id, sharedWithUserId, permission)
    IN /\ Cardinality(r.s.file_shares) <= MaxShares + 1
       /\ file_shares' = r.s.file_shares
       /\ UNCHANGED <<files, blobs, nextId, users, moves>>

\* unshare requests on such a store
UnshareFolderMore ==
  \E req \in Authenticated, id \in Existing, sharedWithUserId \in Grantees :
    /\ file_shares' = unshareFolder(Store, req, id, sharedWithUserId).s.file_shares
    /\ UNCHANGED <<files, blobs, nextId, users, moves>>

NextShares ==
  \/ CreateFolder
  \/ UploadFiles
  \/ ShareFolderMore
  \/ UnshareFolderMore

\* share and unshare requests over trees built by create and upload
SpecShares == Init /\ [][NextShares]_vars

DeleteUser ==
  \E req \in Authenticated, id \in Users \cup {NoSuchUser}, io \in Envs(Store) :
    Install(deleteUser(Store, io, req, id))

NextUsers ==
  \/ CreateFolder
  \/ UploadFiles
  \/ MoveFile
  \/ ShareFolder
  \/ DeleteUser

\* the deletion of users, over trees built by create, upload, move and share
SpecUsers == Init /\ [][NextUsers]_vars

\* the requests that rename, over trees built by create, upload and share
SpecRename == Init /\ [][NextRename]_vars

Spec == Init /\ [][Next]_vars

\* ================================================================== claims
\* Vocabulary of the claims: the tree as the parent_id column defines it.
RECURSIVE ancestorClosure(_, _)
ancestorClosure(s, set) ==
  LET more == (set \cup {s.files[f].parent_id : f \in set \cap DOMAIN s.files}) \ {NULL}
  IN IF more = set THEN set ELSE ancestorClosure(s, more)

\* the nodes on the parent_id chain of f, f excluded unless the chain is a cycle
Ancestors(s, f) ==
  IF s.files[f].parent_id = NULL THEN {} ELSE ancestorClosure(s, {s.files[f].parent_id})

\* the nodes whose parent_id chain passes through f
Descendants(s, f) == {d \in DOMAIN s.files : f \in Ancestors(s, d)}

\* the nodes strictly between an ancestor f and its descendant d
Between(s, f, d) == Descendants(s, f) \cap Ancestors(s, d)

NonAdmins == {req \in Principals : ~isAdmin(req)}

AdminReq == [userId |-> "Adm", role |-> "admin"]

ReqOf(u) == [userId |-> u, role |-> role(u)]

\* C1: a Move(F, D) with D = F or D a descendant of F, by a principal that
\* resolves F and D, is answered 400 and changes no parent_id.
C1_MoveIntoOwnSubtreeRejected ==
  \A req \in Principals, F \in Existing, D \in Existing :
    ( /\ checkFileAccess(Store, F, req) # NULL
      /\ checkFileAccess(Store, D, req) # NULL
      /\ (D = F \/ D \in Descendants(Store, F)) )
    => LET r == moveFile(Store, req, F, D)
       IN /\ r.status = 400
          /\ \A n \in Existing : r.s.files[n].parent_id = files[n].parent_id

\* C2: after Copy(F, dest) (dest outside the subtree of F) no clone names a
\* blob an earlier row names, and a Delete of the original F, soft by its
\* owner or hard by the admin, leaves every clone row and every clone's blob.
C2_CopySurvivesDeleteOfOriginal ==
  \A req \in Principals, F \in Existing, dest \in Existing :
    LET c == copyFile(Store, NoFailure, req, F, dest)
        clones == DOMAIN c.s.files \ Existing
    IN (c.status = 201 /\ dest \notin Descendants(Store, F) \cup {F})
       => /\ \A k \in clones :
               c.s.files[k].file_path # NoPath
               => \A n \in Existing : c.s.files[k].file_path # files[n].file_path
          /\ \A deleter \in {ReqOf(files[F].user_id), AdminReq} :
               LET d == deleteFileById(c.s, NoFailure, deleter, F)
               IN d.status = 204
                  => \A k \in clones :
                       /\ k \in DOMAIN d.s.files
                       /\ d.s.files[k] = c.s.files[k]
                       /\ (c.s.files[k].file_path \in c.s.blobs
                           => c.s.files[k].file_path \in d.s.blobs)

\* the access resolver: checkFileAccess decides whether the node resolves,
\* checkWriteAccess whether the permission is write
resolveAccess(s, req, id) ==
  IF checkFileAccess(s, id, req) = NULL THEN "NotFound"
  ELSE IF checkWriteAccess(s, id, req) THEN "write"
  ELSE "read"

\* C3: when folder F is shared with U at permission p, every descendant D of F
\* (F, D and the folders between them of F's owner, none deleted, none shared
\* itself) resolves for U at permission p.
C3_DescendantOfSharedResolvesAtP ==
  \A sh \in file_shares, D \in Existing :
    LET F == sh.file_id
        U == sh.shared_with_user_id
        chain == Between(Store, F, D) \cup {F, D}
    IN ( /\ role(U) = "user"
         /\ D \in Descendants(Store, F)
         /\ \A n \in chain : /\ files[n].user_id = files[F].user_id
                             /\ files[n].deleted = FALSE
         /\ files[F].user_id # U
         /\ \A n \in chain \ {F} : ~sharedWith(Store, n, U) )
       => resolveAccess(Store, ReqOf(U), D) = sh.permission

\* C4 as stated: a folder F resolves to NotFound for every non-admin U that
\* neither owns F nor has a share row on F.
C4_Original_NoShareNoOwnerNotFound ==
  \A req \in NonAdmins, F \in Existing :
    ( /\ files[F].type = "folder"
      /\ files[F].user_id # req.userId
      /\ ~sharedWith(Store, F, req.userId) )
    => checkFileAccess(Store, F, req) = NULL

\* C4 amended: a folder F resolves to NotFound for every non-admin U that owns
\* neither F nor an ancestor of F and has no share row on F or on an ancestor.
C4_NoAccessAlongChainNotFound ==
  \A req \in NonAdmins, F \in Existing :
    ( /\ files[F].type = "folder"
      /\ \A n \in Ancestors(Store, F) \cup {F} :
           /\ files[n].user_id # req.userId
           /\ ~sharedWith(Store, n, req.userId) )
    => checkFileAccess(Store, F, req) = NULL

\* C4 witness: a nested folder of another user that U can not reach, while a
\* share row gives U some other folder.
C4_Witness ==
  \E req \in NonAdmins, F \in Existing :
    /\ files[F].type = "folder"
    /\ files[F].deleted = FALSE
    /\ files[F].parent_id # NULL
    /\ \A n \in Ancestors(Store, F) \cup {F} :
         /\ files[n].user_id # req.userId
         /\ ~sharedWith(Store, n, req.userId)
    /\ \E sh \in file_shares : sh.shared_with_user_id = req.userId
    /\ checkFileAccess(Store, F, req) = NULL

\* C5: with Docs of A shared with B at read, B's rename of a node of A inside
\* Docs is answered 403 and leaves the name.
C5_ReadShareRenameForbidden ==
  \A sh \in file_shares, n \in Existing :
    LET Docs == sh.file_id
        B == sh.shared_with_user_id
    IN ( /\ sh.permission = "read"
         /\ role(B) = "user"
         /\ files[Docs].user_id # B
         /\ files[Docs].deleted = FALSE
         /\ files[n].parent_id = Docs
         /\ files[n].user_id = files[Docs].user_id
         /\ files[n].deleted = FALSE )
       => LET r == renameFile(Store, ReqOf(B), n, <<"b">>)
          IN r.status = 403 /\ r.s.files[n].name = files[n].name

\* C6: once the owner has upgraded B's read share on Docs to write, B's rename
\* of a node of A inside Docs is answered 200 with the node, renamed.
C6_WriteShareRenameSucceeds ==
  \A sh \in file_shares, n \in Existing :
    LET Docs == sh.file_id
        B == sh.shared_with_user_id
        A == files[Docs].user_id
    IN ( /\ sh.permission = "read"
         /\ role(B) = "user"
         /\ role(A) = "user"
         /\ A # B
         /\ files[Docs].deleted = FALSE
         /\ files[n].parent_id = Docs
         /\ files[n].user_id = A
         /\ files[n].deleted = FALSE )
       => LET up == shareFolder(Store, ReqOf(A), Docs, B, "write")
              r == renameFile(up.s, ReqOf(B), n, <<"b">>)
          IN /\ up.status = 201
             /\ r.status = 200
             /\ r.data = n
             /\ r.s.files[n].name = <<"b">>

\* C7: a non-admin whose only access to folder F is a read share adds no node
\* under F or under a descendant folder of F: createFolder, upload and copy
\* naming that folder are rejected and insert no row.
C7_ReadShareAddsNoNode ==
  \A sh \in file_shares, P \in Existing :
    LET F == sh.file_id
        U == sh.shared_with_user_id
        chain == IF P = F THEN {F} ELSE Between(Store, F, P) \cup {F, P}
    IN ( /\ sh.permission = "read"
         /\ role(U) = "user"
         /\ (P = F \/ P \in Descendants(Store, F))
         /\ files[P].type = "folder"
         /\ \A n \in Ancestors(Store, P) \cup chain :
              /\ files[n].user_id # U
              /\ \A o \in file_shares :
                   (o.file_id = n /\ o.shared_with_user_id = U) => o = sh )
       => /\ LET r == createFolder(Store, ReqOf(U), <<"a">>, P)
             IN r.status \notin {200, 201} /\ DOMAIN r.s.files = Existing
          /\ LET r == uploadFiles(Store, ReqOf(U), <<"a">>, P)
             IN r.status \notin {200, 201} /\ DOMAIN r.s.files = Existing
          /\ \A x \in Existing :
               LET r == copyFile(Store, NoFailure, ReqOf(U), x, P)
               IN r.status \notin {200, 201} /\ DOMAIN r.s.files = Existing

\* C8: Delete(F) by the non-admin owner U of folder F sets deleted on F and on
\* every descendant of F that U owns, whoever owns the folders between them
\* (the nodes between F and the descendant being live folders).
C8_SoftDeleteReachesAllOwnDescendants ==
  \A req \in NonAdmins, F \in Existing :
    (files[F].user_id = req.userId /\ files[F].deleted = FALSE /\ files[F].type = "folder")
    => LET r == deleteFileById(Store, NoFailure, req, F)
       IN /\ r.status = 204
          /\ r.s.files[F].deleted = TRUE
          /\ \A d \in Descendants(Store, F) :
               ( /\ files[d].user_id = req.userId
                 /\ \A m \in Between(Store, F, d) :
                      files[m].type = "folder" /\ files[m].deleted = FALSE )
               => r.s.files[d].deleted = TRUE

\* every request a non-admin can address to node n is answered 404 and
\* changes no row
AddressedRequestsNotFound(req, n) ==
  /\ getFileById(Store, req, n).status = 404
  /\ downloadFile(Store, req, n).status = 404
  /\ getFolderShares(Store, req, n).status = 404
  /\ LET r == renameFile(Store, req, n, <<"b">>) IN r.status = 404 /\ r.s = Store
  /\ \A dest \in Targets :
       LET r == moveFile(Store, req, n, dest) IN r.status = 404 /\ r.s = Store
  /\ \A dest \in Existing :
       LET r == copyFile(Store, NoFailure, req, n, dest) IN r.status = 404 /\ r.s = Store
  /\ LET r == deleteFileById(Store, NoFailure, req, n) IN r.status = 404 /\ r.s = Store
  /\ \A g \in Users, p \in Permissions :
       LET r == shareFolder(Store, req, n, g, p) IN r.status = 404 /\ r.s = Store
  /\ \A g \in Users :
       LET r == unshareFolder(Store, req, n, g) IN r.status = 404 /\ r.s = Store
  \* as the parent or the destination of a request
  /\ LET r == createFolder(Store, req, <<"a">>, n) IN r.status = 404 /\ r.s = Store
  /\ LET r == uploadFiles(Store, req, <<"a">>, n)
     IN r.status = 404 /\ r.s.files = files
  /\ \A x \in Existing :
       /\ LET r == moveFile(Store, req, x, n) IN r.status = 404 /\ r.s = Store
       /\ LET r == copyFile(Store, NoFailure, req, x, n) IN r.status = 404 /\ r.s = Store

\* C9: a node with deleted = TRUE is in no list, getById, download or
\* shared-with-me answer to a non-admin (its owner included), every request a
\* non-admin addresses to it is answered 404 and changes nothing, and the
\* admin's list of its parent without owner filter returns it.
C9_SoftDeletedInvisible ==
  \A n \in Existing :
    files[n].deleted = TRUE
    => /\ \A req \in NonAdmins :
            /\ \A parentId \in Targets : n \notin getFiles(Store, req, parentId, NULL).data
            /\ n \notin getSharedFolders(Store, req).data
            /\ AddressedRequestsNotFound(req, n)
       /\ n \in getFiles(Store, AdminReq, files[n].parent_id, NULL).data

\* C9 witness: a soft-deleted folder that is shared with a user and has a
\* live child: its owner gets 404 for it, the admin's list returns it.
C9_Witness ==
  \E n \in Existing :
    /\ files[n].deleted = TRUE
    /\ \E sh \in file_shares : sh.file_id = n
    /\ \E c \in Existing : files[c].parent_id = n /\ files[c].deleted = FALSE
    /\ getFileById(Store, ReqOf(files[n].user_id), n).status = 404
    /\ n \in getFiles(Store, AdminReq, files[n].parent_id, NULL).data

\* C10: once Delete(N) by the admin is answered 204, no row is left for N or a
\* descendant of N, no blob of a file of that subtree is left, and getById,
\* download and list find none of them for any principal.
C10_HardDeleteRemovesSubtree ==
  \A N \in Existing, env \in Envs(Store) :
    LET r == deleteFileById(Store, env, AdminReq, N)
    IN r.status = 204
       => \A d \in Descendants(Store, N) \cup {N} :
            /\ d \notin DOMAIN r.s.files
            /\ (files[d].type = "file" => files[d].file_path \notin r.s.blobs)
            /\ \A req \in Principals :
                 /\ getFileById(r.s, req, d).status = 404
                 /\ downloadFile(r.s, req, d).status = 404
                 /\ \A parentId \in Targets : d \notin getFiles(r.s, req, parentId, NULL).data

\* rows and share rows of the store name users that are rows of users
NoRowOfDeletedUser ==
  /\ \A f \in Existing : files[f].user_id \in users
  /\ \A sh \in file_shares : /\ sh.file_id \in Existing
                             /\ sh.shared_by_user_id \in users
                             /\ sh.shared_with_user_id \in users

\* C11: the admin's deleteUser(A), the file system not failing, is answered
\* 204 and leaves no row owned by A, no blob of a file A owned, no share row on
\* a node of A or naming A as grantor or grantee; the root list and the
\* shared-with-me list of every remaining user contain no former node of A; and
\* no reachable state holds a row of a deleted user.
C11_DeleteUserRemovesNodesBlobsShares ==
  /\ NoRowOfDeletedUser
  /\ \A A \in users \ {"Adm"} :
       "Adm" \in users
       => LET r == deleteUser(Store, NoFailure, AdminReq, A)
              owned == {f \in Existing : files[f].user_id = A}
          IN /\ r.status = 204
             /\ A \notin r.s.users
             /\ \A f \in DOMAIN r.s.files : r.s.files[f].user_id # A
             /\ owned \cap DOMAIN r.s.files = {}
             /\ \A f \in owned : files[f].file_path # NoPath => files[f].file_path \notin r.s.blobs
             /\ \A sh \in r.s.file_shares : /\ sh.file_id \notin owned
                                            /\ sh.shared_by_user_id # A
                                            /\ sh.shared_with_user_id # A
             /\ \A B \in r.s.users :
                  /\ getFiles(r.s, ReqOf(B), NULL, NULL).data \cap owned = {}
                  /\ getSharedFolders(r.s, ReqOf(B)).data \cap owned = {}

\* C11 witness: A owns a folder shared with B, listed by B's shared-with-me, and
\* a file whose blob is in the upload directory; deleteUser(A) is answered 204.
C11_Witness ==
  \E F \in Existing, G \in Existing :
    /\ files[F].user_id = "A" /\ files[F].type = "folder"
    /\ sharedWith(Store, F, "B")
    /\ F \in getSharedFolders(Store, ReqOf("B")).data
    /\ files[G].user_id = "A" /\ files[G].file_path \in blobs
    /\ deleteUser(Store, NoFailure, AdminReq, "A").status = 204

\* C12: the parent_id chain of every node is acyclic, stated for the states
\* in which one user owns every node and none is deleted (there the descendant
\* check of a single request sees the whole chain), whatever the move requests
\* in flight.
C12_ParentChainAcyclic ==
  (\A n \in Existing : files[n].user_id = "A" /\ files[n].deleted = FALSE)
  => \A n \in Existing : n \notin Ancestors(Store, n)

C14_ListReturnsChildrenOfAccessibleParent ==
  \A req \in NonAdmins, P \in Existing :
    (files[P].type = "folder" /\ checkFileAccess(Store, P, req) # NULL)
    => getFiles(Store, req, P, NULL).data =
         {c \in Existing : files[c].parent_id = P /\ files[c].deleted = FALSE}

\* C15: getFileById answers 200 with the node only for pairs (principal, node)
\* that checkFileAccess, the resolver of downloadFile, resolves, and for every
\* pair it resolves through a share on the node or on an ancestor folder.
C15_GetByIdAgreesWithResolver ==
  /\ \A req \in Principals, n \in Existing :
       LET r == getFileById(Store, req, n)
       IN /\ r.status \in {200, 404}
          /\ r.status = 200 => (r.data = n /\ checkFileAccess(Store, n, req) # NULL)
  /\ \A sh \in file_shares, n \in Existing :
       LET req == ReqOf(sh.shared_with_user_id)
       IN ( /\ ~isAdmin(req)
            /\ (n = sh.file_id \/ n \in Descendants(Store, sh.file_id))
            /\ checkFileAccess(Store, n, req) # NULL )
          => getFileById(Store, req, n).status = 200

\* C16: there is at most one share row per pair (folder, grantee), and a
\* share request answered 201 for a pair that has a row leaves the rows as they
\* were, but for the permission of that row, which is the requested one.
C16_ShareUpsertKeepsPairUnique ==
  /\ \A a \in file_shares, b \in file_shares :
       (a.file_id = b.file_id /\ a.shared_with_user_id = b.shared_with_user_id) => a = b
  /\ \A req \in Principals, id \in Existing, g \in Users, p \in Permissions :
       LET r == shareFolder(Store, req, id, g, p)
           old == {sh \in file_shares : sh.file_id = id /\ sh.shared_with_user_id = g}
       IN (r.status = 201 /\ old # {})
          => /\ Cardinality(r.s.file_shares) = Cardinality(file_shares)
             /\ r.s.file_shares \ {[sh EXCEPT !.permission = p] : sh \in old} = file_shares \ old
             /\ \A sh \in r.s.file_shares :
                  (sh.file_id = id /\ sh.shared_with_user_id = g) => sh.permission = p
             /\ r.s.files = files

\* C16 witness: two share rows, one of them for a pair whose permission a
\* share request by another grantor changes.
C16_Witness ==
  \E a \in file_shares, b \in file_shares, req \in Principals :
    /\ a # b
    /\ a.permission = "read"
    /\ req.userId # a.shared_by_user_id
    /\ LET r == shareFolder(Store, req, a.file_id, a.shared_with_user_id, "write")
       IN /\ r.status = 201
          /\ r.s.file_shares # file_shares
          /\ b \in r.s.file_shares

\* C17: a share request changes no row and is answered
\*  - 403 when a non-admin names a folder it resolves and does not own, 404 when
\*    it names a folder it does not resolve or an id that is no row;
\*  - 400 or 404 when the node is not a folder;
\*  - 400, 403 or 404 when the grantee is the caller or is no user.
C17_ShareRejections ==
  \A req \in Principals, id \in Existing \cup {nextId},
     g \in Users \cup {NoSuchUser}, p \in Permissions :
    LET r == shareFolder(Store, req, id, g, p)
        isRow == id \in Existing
    IN /\ (~isRow \/ (~isAdmin(req) /\ files[id].type = "folder"
                                    /\ files[id].user_id # req.userId))
          => /\ r.status = IF checkFileAccess(Store, id, req) # NULL THEN 403 ELSE 404
             /\ r.s = Store
       /\ (isRow /\ files[id].type # "folder")
          => (r.status \in {400, 404} /\ r.s = Store)
       /\ (g = req.userId \/ g \notin users)
          => (r.status \in {400, 403, 404} /\ r.s = Store)
       /\ r.status # 201 => r.s = Store

\* C17 witness: a grantee of a folder is answered 403 for sharing it on and 404
\* for a folder it does not resolve; the owner is answered 400 for sharing a
\* file, 400 for sharing with itself and 404 for an unknown grantee.
C17_Witness ==
  \E F \in Existing, G \in Existing, N \in Existing :
    LET A == files[F].user_id
        B == CHOOSE u \in {"A", "B"} : u # A
    IN /\ A \in {"A", "B"}
       /\ files[F].type = "folder" /\ files[G].type = "folder" /\ files[N].type = "file"
       /\ files[G].user_id = A /\ files[N].user_id = A
       /\ shareFolder(Store, ReqOf(B), F, "Adm", "read").status = 403
       /\ shareFolder(Store, ReqOf(B), G, "Adm", "read").status = 404
       /\ shareFolder(Store, ReqOf(A), N, B, "read").status = 400
       /\ shareFolder(Store, ReqOf(A), F, A, "read").status = 400
       /\ shareFolder(Store, ReqOf(A), F, NoSuchUser, "read").status = 404
       /\ shareFolder(Store, ReqOf(A), G, B, "read").status = 201

C19_UnshareRevokesSubtree ==
  \A req \in Principals, F \in Existing, U \in Users \ {"Adm"} :
    LET r == unshareFolder(Store, req, F, U)
    IN r.status = 204
       => /\ ~sharedWith(r.s, F, U)
          /\ files[F].user_id # U => getFiles(r.s, ReqOf(U), F, NULL).data = {}
          /\ \A n \in Descendants(Store, F) \cup {F} :
               (\A m \in Ancestors(r.s, n) \cup {n} :
                  r.s.files[m].user_id # U /\ ~sharedWith(r.s, m, U))
               => /\ checkFileAccess(r.s, n, ReqOf(U)) = NULL
                  /\ resolveAccess(r.s, ReqOf(U), n) = "NotFound"
                  /\ downloadFile(r.s, ReqOf(U), n).status = 404
                  /\ getFileById(r.s, ReqOf(U), n).status = 404

\* C19 witness: U downloads a file inside shared folder F and has a share on
\* another folder; after the owner's unshare(F, U) the file and F no longer
\* resolve for U, the other folder still does.
C19_Witness ==
  \E F \in Existing, n \in Existing, G \in Existing, U \in {"A", "B"} :
    LET r == unshareFolder(Store, ReqOf(files[F].user_id), F, U)
    IN /\ files[n].parent_id = F /\ files[n].user_id # U /\ files[F].user_id # U
       /\ G # F /\ files[G].user_id # U /\ sharedWith(Store, G, U)
       /\ downloadFile(Store, ReqOf(U), n).status = 200
       /\ getFiles(Store, ReqOf(U), F, NULL).data = {n}
       /\ r.status = 204
       /\ downloadFile(r.s, ReqOf(U), n).status = 404
       /\ checkFileAccess(r.s, F, ReqOf(U)) = NULL
       /\ checkFileAccess(r.s, G, ReqOf(U)) = G

\* C20: a copy of a folder that would be answered 201 and that meets a failing
\* blob copy is answered with an error and leaves the rows and the blobs as
\* they were before the request.
C20_FailedCopyLeavesNoRow ==
  \A req \in Principals, id \in Existing, destinationId \in Existing, env \in Envs(Store) :
    LET r == copyFile(Store, env, req, id, destinationId)
        ok == copyFile(Store, [env EXCEPT !.io = {}], req, id, destinationId)
    IN (files[id].type = "folder" /\ ok.status = 201 /\ r.status # 201)
       => /\ r.status = 500
          /\ r.s.files = files
          /\ r.s.blobs = blobs

\* C21: an unlink that fails with an error other than ENOENT aborts neither
\* the admin's hard delete nor deleteUser: the request is answered 204 and the
\* rows are removed as they are when no unlink fails.
C21_BlobFailureDoesNotAbortDelete ==
  \A env \in Envs(Store) :
    LET quiet == [env EXCEPT !.io = {}]
    IN /\ \A N \in Existing :
            LET r == deleteFileById(Store, env, AdminReq, N)
                ok == deleteFileById(Store, quiet, AdminReq, N)
            IN ok.status = 204
               => /\ r.status = 204
                  /\ r.s.files = ok.s.files
                  /\ r.s.file_shares = ok.s.file_shares
       /\ \A A \in users \ {"Adm"} :
            LET r == deleteUser(Store, env, AdminReq, A)
                ok == deleteUser(Store, quiet, AdminReq, A)
            IN /\ r.status = 204
               /\ r.s.files = ok.s.files
               /\ r.s.file_shares = ok.s.file_shares
               /\ r.s.users = ok.s.users

\* C22: the admin's hard delete of a file row whose blob is already missing is
\* answered 204 and removes the row, and the admin's hard delete of any node
\* gives the same answer, rows and share rows whichever blobs are missing.
C22_HardDeleteIgnoresMissingBlobs ==
  /\ \A N \in Existing, env \in Envs(Store) :
       (/\ files[N].type = "file"
        /\ files[N].file_path # NoPath
        /\ files[N].file_path \notin blobs)
       => LET r == deleteFileById(Store, env, AdminReq, N)
          IN r.status = 204 /\ N \notin DOMAIN r.s.files
  /\ \A N \in Existing, missing \in SUBSET blobs, desc \in BOOLEAN :
       LET env == [io |-> {}, desc |-> desc]
           r == deleteFileById(Store, env, AdminReq, N)
           m == deleteFileById([Store EXCEPT !.blobs = blobs \ missing], env, AdminReq, N)
       IN /\ m.status = r.status
          /\ m.s.files = r.s.files
          /\ m.s.file_shares = r.s.file_shares

\* a file row whose blob is no longer in the upload directory
C22_Witness ==
  \E N \in Existing :
    /\ files[N].type = "file"
    /\ files[N].file_path # NoPath
    /\ files[N].file_path \notin blobs

\* P holds of the response, on the present store, of every request that
\* changes the store other than DELETE /:id
EveryOtherResponse(P(_)) ==
  /\ \A req \in Authenticated, parentId \in Targets :
       /\ P(createFolder(Store, req, <<"a">>, parentId))
       /\ P(uploadFiles(Store, req, <<"a">>, parentId))
  /\ \A req \in Authenticated, id \in Existing :
       /\ \A name \in RenameNames : P(renameFile(Store, req, id, name))
       /\ \A destinationId \in Targets : P(moveFile(Store, req, id, destinationId))
       /\ \A destinationId \in Existing, env \in Envs(Store) :
            P(copyFile(Store, env, req, id, destinationId))
       /\ \A u \in Grantees :
            /\ \A permission \in Permissions :
                 P(shareFolder(Store, req, id, u, permission))
            /\ P(unshareFolder(Store, req, id, u))

\* P holds of every response of DELETE /users/:id on the present store
EveryDeleteUserResponse(P(_)) ==
  \A req \in Authenticated, env \in Envs(Store), u \in Users :
    P(deleteUser(Store, env, req, u))

\* P holds of every response of DELETE /:id on the present store
EveryDeleteResponse(P(_)) ==
  \A req \in Authenticated, id \in Existing, env \in Envs(Store) :
    P(deleteFileById(Store, env, req, id))

\* the rows kept keep their flag and the rows added start with the flag FALSE
FlagsKept(r) ==
  /\ \A n \in DOMAIN files \cap DOMAIN r.s.files :
       r.s.files[n].deleted = files[n].deleted
  /\ \A n \in DOMAIN r.s.files \ DOMAIN files : r.s.files[n].deleted = FALSE

\* C23: the deleted flag of a row changes only from FALSE to TRUE and only in
\* a DELETE /:id of a non-admin; every row starts with the flag FALSE, no other
\* request changes the flag of a row, and the admin's DELETE /:id changes no
\* flag and, answered 204, removes the row, a soft-deleted one included.
C23_DeletedOnlySetBySoftDelete ==
  /\ EveryOtherResponse(FlagsKept)
  /\ EveryDeleteUserResponse(FlagsKept)
  /\ \A req \in Authenticated, id \in Existing, env \in Envs(Store) :
       LET r == deleteFileById(Store, env, req, id)
       IN /\ DOMAIN r.s.files \subseteq DOMAIN files
          /\ \A n \in DOMAIN r.s.files :
               r.s.files[n].deleted # files[n].deleted
               => /\ ~isAdmin(req)
                  /\ files[n].deleted = FALSE
                  /\ r.s.files[n].deleted = TRUE
          /\ (isAdmin(req) /\ r.status = 204) => id \notin DOMAIN r.s.files

\* a soft-deleted row that the admin's DELETE /:id removes
C23_Witness ==
  \E n \in Existing :
    /\ files[n].deleted = TRUE
    /\ deleteFileById(Store, NoFailure, AdminReq, n).status = 204
    /\ n \notin DOMAIN deleteFileById(Store, NoFailure, AdminReq, n).s.files

\* the rows kept keep their owner
OwnerKept(r) ==
  \A n \in DOMAIN files \cap DOMAIN r.s.files :
    r.s.files[n].user_id = files[n].user_id

\* C24: no request changes user_id of a row that exists before and after it:
\* rename, move, copy, delete, share and unshare by any principal leave the
\* owner of every existing row as it was.
C24_OwnerNeverChanges ==
  /\ EveryOtherResponse(OwnerKept)
  /\ EveryDeleteResponse(OwnerKept)
  /\ EveryDeleteUserResponse(OwnerKept)

\* a row of A that another principal moves and copies with success
C24_Witness ==
  \E n \in Existing, d \in Existing, req \in Authenticated :
    /\ files[n].user_id = "A"
    /\ req.userId # "A"
    /\ moveFile(Store, req, n, d).status = 200
    /\ \E c \in Existing, b \in NonAdmins :
         /\ files[c].user_id # b.userId
         /\ copyFile(Store, NoFailure, b, c, d).status = 201

\* req owns no row and has no share row on X or on an ancestor of X
NoAccessAlongChain(req, X) ==
  \A n \in Ancestors(Store, X) \cup {X} :
    /\ files[n].user_id # req.userId
    /\ ~sharedWith(Store, n, req.userId)

\* C25: for a non-admin without ownership, share or ancestor access to the
\* row X, every request addressed to X (get by id, list with parentId = X,
\* rename, move, copy, delete, download, share, unshare, list shares) gives the
\* response it gives for an id that is no row, and leaves the store as it is.
C25_NoAccessLooksLikeAbsent ==
  \A req \in NonAdmins, X \in Existing :
    NoAccessAlongChain(req, X)
    => LET Y == nextId
           same(rx, ry) == /\ rx.status = ry.status
                           /\ rx.data = ry.data
                           /\ rx.s = Store
                           /\ ry.s = Store
       IN /\ same(getFileById(Store, req, X), getFileById(Store, req, Y))
          /\ same(getFiles(Store, req, X, NULL), getFiles(Store, req, Y, NULL))
          /\ \A name \in RenameNames \cup {<<"b">>} :
               same(renameFile(Store, req, X, name), renameFile(Store, req, Y, name))
          /\ \A dest \in Targets :
               same(moveFile(Store, req, X, dest), moveFile(Store, req, Y, dest))
          /\ \A dest \in Targets, env \in Envs(Store) :
               same(copyFile(Store, env, req, X, dest), copyFile(Store, env, req, Y, dest))
          /\ same(deleteFileById(Store, NoFailure, req, X),
                  deleteFileById(Store, NoFailure, req, Y))
          /\ same(downloadFile(Store, req, X), downloadFile(Store, req, Y))
          /\ \A g \in Users, p \in Permissions \cup {"none"} :
               same(shareFolder(Store, req, X, g, p), shareFolder(Store, req, Y, g, p))
          /\ \A g \in Users :
               same(unshareFolder(Store, req, X, g), unshareFolder(Store, req, Y, g))
          /\ same(getFolderShares(Store, req, X), getFolderShares(Store, req, Y))

\* a live row X of another user, visible to its owner, that a user who owns
\* rows of their own has no access to
C25_Witness ==
  \E req \in NonAdmins, X \in Existing :
    /\ NoAccessAlongChain(req, X)
    /\ files[X].deleted = FALSE
    /\ role(files[X].user_id) = "user"
    /\ getFileById(Store, ReqOf(files[X].user_id), X).status = 200
    /\ \E n \in Existing : files[n].user_id = req.userId
    /\ downloadFile(Store, req, X).status = 404

\* C26: for the admin every existing row resolves, soft-deleted rows and rows
\* of other owners included, with write access: the admin's rename, move,
\* delete and share of an existing row are never answered 401, 403 or 404.
C26_AdminResolvesEveryRow ==
  \A X \in Existing :
    LET denied == {401, 403, 404}
    IN /\ checkFileAccess(Store, X, AdminReq) = X
       /\ checkWriteAccess(Store, X, AdminReq)
       /\ resolveAccess(Store, AdminReq, X) = "write"
       /\ \A name \in RenameNames \cup {<<"b">>} :
            renameFile(Store, AdminReq, X, name).status \notin denied
       /\ \A dest \in Targets : moveFile(Store, AdminReq, X, dest).status \notin denied
       /\ \A env \in Envs(Store) :
            deleteFileById(Store, env, AdminReq, X).status \notin denied
       /\ \A g \in Grantees, p \in Permissions :
            shareFolder(Store, AdminReq, X, g, p).status \notin denied

\* a soft-deleted row of another user that the admin renames, moves to the
\* root and deletes, and a folder of another user that the admin shares
C26_Witness ==
  /\ \E X \in Existing :
       /\ files[X].deleted = TRUE
       /\ files[X].user_id # "Adm"
       /\ renameFile(Store, AdminReq, X, <<"b">>).status = 200
       /\ moveFile(Store, AdminReq, X, NULL).status = 200
       /\ deleteFileById(Store, NoFailure, AdminReq, X).status = 204
  /\ \E F \in Existing :
       /\ files[F].user_id = "A"
       /\ shareFolder(Store, AdminReq, F, "B", "read").status = 201

\* C27: a move of N that passed its checks and meets a concurrent delete of N
\* before its UPDATE is answered 200 or 404, never with another error, and a
\* move answered 200 leaves N with the destination as parent.
C27_MoveRacingDeleteSucceedsOrNotFound ==
  \A sl \in Slots :
    LET m == moves[sl]
        r == moveUpdate(Store, m)
    IN ( /\ m.pc = "update"
         /\ \/ m.id \notin DOMAIN files
            \/ files[m.id].deleted = TRUE )
       => /\ r.status \in {200, 404}
          /\ r.status = 200 => r.s.files[m.id].parent_id = m.destinationId

\* C28: a delete by a non-admin removes no row, no share row and no blob; the
\* rows differ from the rows before it in their deleted flag alone.
C28_SoftDeleteKeepsRowsSharesBlobs ==
  \A req \in NonAdmins, id \in Existing, env \in Envs(Store) :
    LET r == deleteFileById(Store, env, req, id)
    IN /\ DOMAIN r.s.files = DOMAIN files
       /\ \A n \in DOMAIN files :
            [r.s.files[n] EXCEPT !.deleted = files[n].deleted] = files[n]
       /\ r.s.file_shares = file_shares
       /\ r.s.blobs = blobs
       /\ r.s.nextId = nextId
       /\ r.s.users = users

\* a shared folder with a file of its owner inside, which the owner's delete
\* marks together with the file
C28_Witness ==
  \E F \in Existing, c \in Existing :
    LET r == deleteFileById(Store, NoFailure, ReqOf(files[F].user_id), F)
    IN /\ role(files[F].user_id) = "user"
       /\ \E sh \in file_shares : sh.file_id = F
       /\ files[c].parent_id = F
       /\ files[c].file_path \in blobs
       /\ files[c].deleted = FALSE
       /\ r.status = 204
       /\ r.s.files[F].deleted = TRUE
       /\ r.s.files[c].deleted = TRUE

\* C29: on every reachable store the descendant check of a move ends with an
\* answer, for every mover, moved folder and destination, a destination whose
\* parent chain runs into a cycle that does not hold the moved folder included.
C29_DescendantCheckTerminates ==
  \A req \in Authenticated, id \in Existing, destinationId \in Existing :
    files[id].type = "folder"
    => /\ checkIfDescendant(Store, destinationId, id, req.userId, isAdmin(req))
            \in {"true", "false"}
       /\ moveFile(Store, req, id, destinationId).status # 0

RECURSIVE ownLiveClosure(_, _, _, _)
\* set with the rows reached from it through children that userId owns and
\* that are not deleted, below parents whose type is in kinds
ownLiveClosure(s, set, userId, kinds) ==
  LET more == set \cup {c \in DOMAIN s.files :
                          /\ s.files[c].parent_id \in set
                          /\ s.files[s.files[c].parent_id].type \in kinds
                          /\ s.files[c].user_id = userId
                          /\ s.files[c].deleted = FALSE}
  IN IF more = set THEN set ELSE ownLiveClosure(s, more, userId, kinds)

\* the response r to the copy of id into destinationId by req adds exactly one
\* clone per row of sources and returns the clone of id
ClonesExactly(r, req, id, destinationId, sources) ==
  LET new == DOMAIN r.s.files \ DOMAIN files
  IN /\ \A n \in DOMAIN files : r.s.files[n] = files[n]
     /\ \E clone \in [sources -> new] :
          /\ \A n \in new : \E o \in sources : clone[o] = n
          /\ \A o1 \in sources, o2 \in sources : clone[o1] = clone[o2] => o1 = o2
          /\ \A o \in sources :
               /\ r.s.files[clone[o]].user_id = req.userId
               /\ r.s.files[clone[o]].type = files[o].type
               /\ r.s.files[clone[o]].name = Append(files[o].name, CopySuffix)
               /\ r.s.files[clone[o]].parent_id =
                    IF o = id THEN destinationId ELSE clone[files[o].parent_id]
          /\ r.data = clone[id]

C31_MoveChangesOnlyParent ==
  \A req \in Authenticated, id \in Existing, destinationId \in Targets :
    LET r == moveFile(Store, req, id, destinationId)
    IN r.status = 200
       => /\ r.s.files = [files EXCEPT ![id].parent_id = destinationId]
          /\ r.s.file_shares = file_shares
          /\ r.s.blobs = blobs
          /\ r.s.nextId = nextId
          /\ r.s.users = users
          /\ r.data = id

\* a folder with a row below it, moved with success into another folder and
\* to the root, while a share row and a blob exist
C31_Witness ==
  \E id \in Existing, c \in Existing, d \in Existing, req \in Authenticated :
    /\ files[c].parent_id = id
    /\ files[id].parent_id # d
    /\ moveFile(Store, req, id, d).status = 200
    /\ \E e \in Existing, q \in Authenticated :
         files[e].parent_id # NULL /\ moveFile(Store, q, e, NULL).status = 200
    /\ file_shares # {}
    /\ blobs # {}

\* C32: a move whose row or whose destination does not resolve for the caller
\* is answered 404, a move whose destination resolves to a row of type file is
\* answered 400, and in both cases the store is left as it was. The ids range
\* over the rows and an id that is no row.
C32_MoveRejections ==
  \A req \in Authenticated, id \in Existing \cup {nextId},
     destinationId \in Existing \cup {nextId} :
    LET r == moveFile(Store, req, id, destinationId)
        file == checkFileAccess(Store, id, req)
        destFile == checkFileAccess(Store, destinationId, req)
    IN /\ (file = NULL \/ destFile = NULL) => (r.status = 404 /\ r.s = Store)
       /\ (file # NULL /\ destFile # NULL /\ files[destFile].type = "file")
          => (r.status = 400 /\ r.s = Store)

\* the rows that P does not own are kept with their name, parent and flag
OthersRowsKept(P, r) ==
  \A n \in DOMAIN files :
    files[n].user_id # P
    => /\ n \in DOMAIN r.s.files
       /\ r.s.files[n].name = files[n].name
       /\ r.s.files[n].parent_id = files[n].parent_id
       /\ r.s.files[n].deleted = files[n].deleted

\* C33: no rename, move or delete request of a non-admin P changes the name,
\* the parent or the deleted flag of a row that P does not own, whatever share
\* P holds on the row or on its ancestors.
C33_NonOwnerChangesNothingOfOthers ==
  \A req \in NonAdmins, id \in Existing :
    /\ \A name \in RenameNames \cup {<<"b">>} :
         OthersRowsKept(req.userId, renameFile(Store, req, id, name))
    /\ \A destinationId \in Targets :
         OthersRowsKept(req.userId, moveFile(Store, req, id, destinationId))
    /\ \A env \in Envs(Store) :
         OthersRowsKept(req.userId, deleteFileById(Store, env, req, id))

\* a folder of another user shared with P at write, which P's rename, move
\* and delete requests reach
C33_Witness ==
  \E req \in NonAdmins, F \in Existing :
    /\ files[F].user_id # req.userId
    /\ \E sh \in file_shares : /\ sh.file_id = F
                               /\ sh.shared_with_user_id = req.userId
                               /\ sh.permission = "write"
    /\ checkFileAccess(Store, F, req) = F
    /\ renameFile(Store, req, F, <<"b">>).status # 404
    /\ moveFile(Store, req, F, NULL).status # 404
    /\ deleteFileById(Store, NoFailure, req, F).status = 204

\* C34: in every state reached by create, upload, move, copy, share and
\* delete requests handled one after the other, no row with deleted = FALSE
\* has an ancestor with deleted = TRUE. Stated for the rows whose ancestors
\* are folders.
C34_NoLiveRowBelowDeleted ==
  \A n \in Existing :
    (files[n].deleted = FALSE /\ \A a \in Ancestors(Store, n) : files[a].type = "folder")
    => \A a \in Ancestors(Store, n) : files[a].deleted = FALSE

\* the response r removes no file row, of those whose ancestors are folders,
\* whose blob stays in the upload directory without a row that names it
NoOrphanBlob(r) ==
  \A n \in DOMAIN files \ DOMAIN r.s.files :
    ( /\ files[n].type = "file"
      /\ files[n].file_path # NoPath
      /\ \A a \in Ancestors(Store, n) : files[a].type = "folder"
      /\ files[n].file_path \in r.s.blobs )
    => \E m \in DOMAIN r.s.files : r.s.files[m].file_path = files[n].file_path

\* C35: when no unlink fails, a file row removed by the admin's hard delete,
\* by deleteUser or by the cascade of the store from a removed parent or owner
\* leaves no blob in the upload directory, unless a remaining row names it.
C35_RemovedRowsLeaveNoOrphanBlob ==
  \A desc \in BOOLEAN :
    LET env == [io |-> {}, desc |-> desc]
    IN /\ \A id \in Existing : NoOrphanBlob(deleteFileById(Store, env, AdminReq, id))
       /\ \A u \in users : NoOrphanBlob(deleteUser(Store, env, AdminReq, u))

\* C36: no share row names the owner of its folder as grantee, and a share
\* request of the owner or of the admin whose grantee is the owner of the
\* folder is answered 400 and adds no row.
C36_NoShareWithOwner ==
  /\ \A sh \in file_shares : sh.shared_with_user_id # files[sh.file_id].user_id
  /\ \A req \in Authenticated, id \in Existing, permission \in Permissions :
       LET r == shareFolder(Store, req, id, files[id].user_id, permission)
       IN ( /\ files[id].type = "folder"
            /\ checkFileAccess(Store, id, req) # NULL
            /\ (isAdmin(req) \/ files[id].user_id = req.userId) )
          => (r.status = 400 /\ r.s = Store)

\* createFolder, move and copy whose parent or destination resolves to a row
\* of type file are answered 400 and leave the rows as they were
FileParentRejected ==
  \A req \in Authenticated, f \in Existing :
    (checkFileAccess(Store, f, req) # NULL /\ files[f].type = "file")
    => /\ LET r == createFolder(Store, req, <<"a">>, f)
          IN r.status = 400 /\ r.s.files = files
       /\ \A id \in Existing :
            /\ LET r == moveFile(Store, req, id, f)
               IN checkFileAccess(Store, id, req) # NULL
                  => (r.status = 400 /\ r.s.files = files)
            /\ LET r == copyFile(Store, NoFailure, req, id, f)
               IN checkFileAccess(Store, id, req) # NULL
                  => (r.status = 400 /\ r.s.files = files)

\* C37: in every reachable state every row with a parent has a parent of type
\* folder, and upload, createFolder, move and copy whose parent or destination
\* resolves to a row of type file are rejected and insert or re-parent no row.
C37_ParentIsFolder ==
  /\ \A n \in Existing :
       (files[n].parent_id # NULL /\ files[n].parent_id \in DOMAIN files)
       => files[files[n].parent_id].type = "folder"
  /\ FileParentRejected
  /\ \A req \in Authenticated, f \in Existing :
       (checkFileAccess(Store, f, req) # NULL /\ files[f].type = "file")
       => LET r == uploadFiles(Store, req, <<"a">>, f)
          IN r.status \notin {200, 201} /\ r.s.files = files

====
